---------------------------- MODULE Spec2Model ----------------------------
(***************************************************************************)
(* Detection post-processing core of the repository:                       *)
(*   examples/inject_postprocess.py  the graph rewrite ("augment")         *)
(*   examples/self_valid.py          the host-side decode                  *)
(*                                                                         *)
(* Numbers.  Tensor values are float32 in the code.  The model keeps them  *)
(* exact, as integers counting quarters (the value v stands for v/4), and  *)
(* draws every input from the multiples of one half, so that the one       *)
(* product the code takes (f4*f6) is again a whole number of quarters.     *)
(* Tensors.  Every tensor has rank 3 and batch size 1; [1,d1,d2] is kept    *)
(* as [d1, d2, v] with v[i][j] the element at (0,i-1,j-1).                  *)
(***************************************************************************)
EXTENDS Integers, Sequences, FiniteSets, TLC

VARIABLES
    \* ---- inject_postprocess.py: one run of main() ----
    pc,         \* position in main()
    run,        \* which invocation of the tool this is (1, 2, ...)
    inp,        \* the graph stored in the file given as --in
    g,          \* model.graph, mutated in place
    raw_out,    \* line 24
    old_out_vi, \* line 27
    raw_new,    \* line 30
    built,      \* the nodes built at lines 46-69, not yet in g.node
    checked,    \* whether check_model (line 81) has returned normally
    writes,     \* number of times this run has written the --out file
    files       \* every artifact written so far, oldest first

augVars == <<pc, run, inp, g, raw_out, old_out_vi, raw_new, built, checked,
             writes, files>>

VARIABLES
    \* ---- self_valid.py: one run of the script ----
    dpc,        \* position in the script
    err,        \* the exception that ended the run, or "none"
    model,      \* the graph stored in the model file (line 5)
    head,       \* what the detector's own nodes compute for the image
    lenient,    \* how the execution engine treats a malformed Concat
    w0, h0,     \* the image's size (line 11)
    imgsz,      \* line 7
    K,          \* line 41
    conf_thres, \* line 56, in quarters
    iou_thres,  \* line 57, in quarters
    r,          \* line 12, as <<numerator, denominator>>
    nw, nh,     \* line 13
    padx, pady, \* line 14
    y,          \* lines 24-29
    cols,       \* line 32: <<x1, y1, x2, y2, f4, f5, f6>>
    cls_id,     \* line 33
    conf,       \* line 38
    idx_top,    \* lines 42-43
    boxes,      \* lines 45-59, each coordinate counted in 1/(4*imgsz) pixels
    scores,     \* lines 46, 59
    cids,       \* lines 47, 59
    dets        \* the detections drawn at lines 66-70

decIn == <<model, head, lenient, w0, h0, imgsz, K, conf_thres, iou_thres>>

decVars == <<dpc, err, decIn, r, nw, nh, padx, pady, y, cols, cls_id, conf,
             idx_top, boxes, scores, cids, dets>>

VARIABLES
    \* ---- the suppression of line 63, run on its own and then on its result ----
    nst,        \* "input", then "once", then "twice"
    nrects,     \* the rectangles (x, y, w, h) given to the first run
    nscores,    \* their scores, in quarters
    nconf,      \* score_threshold, in quarters
    niou,       \* nms_threshold, in quarters
    kept1,      \* the indices the first run returns
    kept2       \* the indices the second run returns, into the first's survivors

nmsVars == <<nst, nrects, nscores, nconf, niou, kept1, kept2>>

vars == <<augVars, decVars, nmsVars>>

-----------------------------------------------------------------------------
(* Bounds of the model *)

\* how many times the tool is applied in a row (each time to its own output)
MaxRuns == 2

\* the largest number of candidates N of a detector output
MaxN == 3

\* the largest top-K setting
MaxTopK == 3

\* the longest list of rectangles given to the suppression on its own
MaxBoxes == 3

\* the largest image side and canvas side of the letterbox taken on its own
MaxDim == 6

-----------------------------------------------------------------------------
(* Generic helpers *)

Range(s) == {s[i] : i \in 1..Len(s)}

RECURSIVE Flatten(_)
Flatten(ss) == IF ss = <<>> THEN <<>> ELSE Head(ss) \o Flatten(Tail(ss))

\* the sequence s has no element twice
Distinct(s) == \A i, j \in 1..Len(s) : i # j => s[i] # s[j]

-----------------------------------------------------------------------------
(* The graph object: input, node, initializer, value_info, output lists *)

\* a dimension given as a name ("unk", "N") rather than a number
unk == -1

\* the largest int64, the "to the end" value of a Slice (kept as the largest
\* integer the checker represents; Slice clamps every end to the dimension)
INT64_MAX == 2147483647

ValueInfo(name, shape) == [name |-> name, shape |-> shape]

Node(op, input, output, attr) ==
    [op |-> op, input |-> input, output |-> output, attr |-> attr]

Tensor1D(name, vals) == [name |-> name, dims |-> <<Len(vals)>>, vals |-> vals]

NoGraph == [input |-> <<>>, node |-> <<>>, initializer |-> <<>>,
            value_info |-> <<>>, output |-> <<>>]

\* a detector whose head (an opaque "Body" node) writes the raw tensor
\* to the names outs, and which declares the outputs declared
Detector(outs, declared) ==
    [input |-> <<"images">>,
     node |-> <<Node("Body", <<"images">>, outs, <<>>)>>,
     initializer |-> <<>>,
     value_info |-> <<>>,
     output |-> [i \in 1..Len(declared) |-> ValueInfo(declared[i], <<>>)]]

\* the graphs the tool is given as --in
InputGraphs ==
    { Detector(<<"detections">>, <<"detections">>),
      Detector(<<"detections", "aux">>, <<"detections">>),
      Detector(<<"post_dets">>, <<"post_dets">>),
      [Detector(<<"feat">>, <<"dets">>) EXCEPT
          !.node = @ \o <<Node("Identity", <<"feat">>, <<"dets">>, <<>>)>>],
      Detector(<<"detections">>, <<>>),
      Detector(<<"detections", "aux">>, <<"detections", "aux">>),
      Detector(<<"aux", "detections">>, <<"aux", "detections">>),
      \* a graph that already uses the alias name
      [Detector(<<"detections_raw">>, <<"detections">>) EXCEPT
          !.node = @ \o <<Node("Identity", <<"detections_raw">>, <<"detections">>, <<>>)>>] }

-----------------------------------------------------------------------------
(* inject_postprocess.py *)

\* lines 5-12: appends the four slice parameters to g.initializer and
\* returns the Slice node
make_slice_col(gr, src, start, end, out_name) ==
    LET starts == Tensor1D(out_name \o "_starts", <<0, start, 0>>)
        ends   == Tensor1D(out_name \o "_ends", <<1, end, INT64_MAX>>)
        axes   == Tensor1D(out_name \o "_axes", <<0, 1, 2>>)
        steps  == Tensor1D(out_name \o "_steps", <<1, 1, 1>>)
    IN  [g |-> [gr EXCEPT !.initializer = @ \o <<starts, ends, axes, steps>>],
         node |-> Node("Slice",
                       <<src, starts.name, ends.name, axes.name, steps.name>>,
                       <<out_name>>, <<>>)]

\* line 27: g.output.pop() removes the LAST declared output
PopOutput(gr) == [gr EXCEPT !.output = SubSeq(@, 1, Len(@) - 1)]

RenameProducers_Forgotten(gr, old, new) == gr

\* lines 31-34: every node output called old is renamed to new
RenameProducers(gr, old, new) ==
    [gr EXCEPT !.node =
        [k \in 1..Len(@) |->
            [@[k] EXCEPT !.output =
                [i \in 1..Len(@) |-> IF @[i] = old THEN new ELSE @[i]]]]]

\* lines 37-43
DeclareRaw(gr, new) ==
    [gr EXCEPT !.value_info = Append(@, ValueInfo(new, <<1, 7, unk>>))]

\* the seven (start, out_name) pairs of lines 49-55
SliceCols ==
    << <<0, "c_x1">>, <<1, "c_y1">>, <<2, "c_x2">>, <<3, "c_y2">>,
       <<4, "c_f4">>, <<5, "c_f5">>, <<6, "c_f6">> >>

\* lines 49-55: the seven calls of make_slice_col, in order
RECURSIVE MakeSlices(_, _)
MakeSlices(gr, k) ==
    IF k > Len(SliceCols) THEN [g |-> gr, nodes |-> <<>>]
    ELSE LET s    == make_slice_col(gr, "n7", SliceCols[k][1],
                                    SliceCols[k][1] + 1, SliceCols[k][2])
             rest == MakeSlices(s.g, k + 1)
         IN  [g |-> rest.g, nodes |-> <<s.node>> \o rest.nodes]

\* lines 46-69: the graph with the slice initializers added, and the twelve
\* nodes in the order of line 79
BuildSubgraph(gr, new) ==
    LET t1  == Node("Transpose", <<new>>, <<"n7">>, <<0, 2, 1>>)
        sl  == MakeSlices(gr, 1)
        mul == Node("Mul", <<"c_f4", "c_f6">>, <<"scoreA">>, <<>>)
        mx  == Node("Max", <<"scoreA", "c_f4">>, <<"score">>, <<>>)
        rnd == Node("Round", <<"c_f5">>, <<"cls_id">>, <<>>)
        cat == Node("Concat",
                    <<"c_x1", "c_y1", "c_x2", "c_y2", "score", "cls_id">>,
                    <<"post_dets">>, <<2>>)
    IN  [g |-> sl.g, nodes |-> <<t1>> \o sl.nodes \o <<mul, mx, rnd, cat>>]

\* lines 72-77
DeclareOut(gr) ==
    [gr EXCEPT !.output = Append(@, ValueInfo("post_dets", <<1, unk, 6>>))]

\* line 79
ExtendNodes(gr, nodes) == [gr EXCEPT !.node = @ \o nodes]

(* line 81, onnx.checker.check_model: the structural rules of the graph     *)
(* format.  Initializer names are unique; the nodes are topologically       *)
(* sorted (every input of a node is a graph input, an initializer or the    *)
(* output of an earlier node); the graph is in single-assignment form (no   *)
(* node output repeats a graph input, an initializer or an earlier node     *)
(* output).                                                                 *)
InitializerNames(gr) == [i \in 1..Len(gr.initializer) |-> gr.initializer[i].name]

\* the names known before node k runs
Known(gr, k) ==
    Range(gr.input) \cup Range(InitializerNames(gr))
        \cup UNION {Range(gr.node[j].output) : j \in 1..(k - 1)}

TopologicallySorted(gr) ==
    \A k \in 1..Len(gr.node) : Range(gr.node[k].input) \subseteq Known(gr, k)

SingleAssignment(gr) ==
    /\ Distinct(gr.input)
    /\ \A k \in 1..Len(gr.node) :
        /\ Distinct(gr.node[k].output)
        /\ Range(gr.node[k].output) \cap Known(gr, k) = {}

check_model_unchecked(gr) == TRUE

check_model_sorted_only(gr) == TopologicallySorted(gr)

check_model(gr) ==
    /\ Distinct(InitializerNames(gr))
    /\ TopologicallySorted(gr)
    /\ SingleAssignment(gr)

-----------------------------------------------------------------------------
(* Tensors and the operators the appended subgraph uses, as the graph      *)
(* format defines them.                                                     *)

Tensor(d1, d2, v) == [d1 |-> d1, d2 |-> d2, v |-> v]

\* what a failed execution yields in place of a tensor
Failure == [d1 |-> -1, d2 |-> -1, v |-> <<>>]

IsTensor(t) == t.d1 >= 0

Shape(t) == <<1, t.d1, t.d2>>

NumElements(t) == t.d1 * t.d2

\* Transpose with perm = [0,2,1]
Transpose021(t) ==
    Tensor(t.d2, t.d1, [i \in 1..t.d2 |-> [j \in 1..t.d1 |-> t.v[j][i]]])

Clamp(x, lo, hi) == IF x < lo THEN lo ELSE IF x > hi THEN hi ELSE x

\* the 0-based indices start, start+step, ... below end that Slice keeps of an
\* axis of size dim (step > 0): negative bounds count from the end, and both
\* bounds are clamped to [0, dim]
SliceIdx(dim, start, end, step) ==
    LET s == Clamp(IF start < 0 THEN start + dim ELSE start, 0, dim)
        e == Clamp(IF end < 0 THEN end + dim ELSE end, 0, dim)
        n == IF e > s THEN (e - s + step - 1) \div step ELSE 0
    IN  [k \in 1..n |-> s + (k - 1) * step]

\* Slice(data, starts, ends, axes, steps); an axis not named in axes is kept
\* whole.  The batch axis has size 1 and is kept as it is.
Slice(t, starts, ends, axes, steps) ==
    LET Idx(a, dim) ==
            IF \E k \in 1..Len(axes) : axes[k] = a
            THEN LET k == CHOOSE k \in 1..Len(axes) : axes[k] = a
                 IN  SliceIdx(dim, starts[k], ends[k], steps[k])
            ELSE [i \in 1..dim |-> i - 1]
        i0 == Idx(0, 1)
        i1 == Idx(1, t.d1)
        i2 == Idx(2, t.d2)
    IN  IF Len(i0) # 1 THEN Failure
        ELSE Tensor(Len(i1), Len(i2),
                    [i \in 1..Len(i1) |->
                        [j \in 1..Len(i2) |-> t.v[i1[i] + 1][i2[j] + 1]]])

\* the broadcast of two sizes of one axis; -1 when they are incompatible
BroadcastDim(a, b) ==
    IF a = b THEN a ELSE IF a = 1 THEN b ELSE IF b = 1 THEN a ELSE -1

\* the product of two values counted in quarters
FMul(a, b) == (a * b) \div 4

FMax(a, b) == IF a >= b THEN a ELSE b

\* an elementwise binary operator (op is "Mul" or "Max") with broadcasting
Elementwise(op, s, t) ==
    LET d1 == BroadcastDim(s.d1, t.d1)
        d2 == BroadcastDim(s.d2, t.d2)
        F(a, b) == IF op = "Mul" THEN FMul(a, b) ELSE FMax(a, b)
    IN  IF d1 < 0 \/ d2 < 0 THEN Failure
        ELSE Tensor(d1, d2,
                [i \in 1..d1 |-> [j \in 1..d2 |->
                    F(s.v[IF s.d1 = 1 THEN 1 ELSE i][IF s.d2 = 1 THEN 1 ELSE j],
                      t.v[IF t.d1 = 1 THEN 1 ELSE i][IF t.d2 = 1 THEN 1 ELSE j])]])

\* round to the nearest integer, halves to the even one (Round of the graph
\* format and numpy's rint agree on this), on values counted in quarters
RoundHalfEven(a) ==
    LET q == a \div 4
        f == a % 4
    IN  4 * (IF f < 2 THEN q
             ELSE IF f > 2 THEN q + 1
             ELSE IF q % 2 = 0 THEN q ELSE q + 1)

RoundT(t) ==
    Tensor(t.d1, t.d2,
           [i \in 1..t.d1 |-> [j \in 1..t.d2 |-> RoundHalfEven(t.v[i][j])]])

RECURSIVE SumD2(_)
SumD2(ts) == IF ts = <<>> THEN 0 ELSE Head(ts).d2 + SumD2(Tail(ts))

RECURSIVE KeepNonEmpty(_)
KeepNonEmpty(ts) ==
    IF ts = <<>> THEN <<>>
    ELSE (IF NumElements(Head(ts)) > 0 THEN <<Head(ts)>> ELSE <<>>)
             \o KeepNonEmpty(Tail(ts))

\* Concat along axis 2.  The format requires the inputs to agree on every
\* other axis.  What an engine does with inputs that do not is not defined:
\* it rejects them, or (when lax) it leaves the inputs without elements out
\* and rejects the rest only if they still disagree.
Concat2(ts, lax) ==
    LET us == IF lax /\ KeepNonEmpty(ts) # <<>> THEN KeepNonEmpty(ts) ELSE ts
        d1 == us[1].d1
    IN  IF \E k \in 1..Len(us) : us[k].d1 # d1 THEN Failure
        ELSE Tensor(d1, SumD2(us),
                    [i \in 1..d1 |-> Flatten([k \in 1..Len(us) |-> us[k].v[i]])])

-----------------------------------------------------------------------------
(* The tensor execution interface: sess.run of self_valid.py line 24 *)

InitializerVals(gr, name) ==
    LET k == CHOOSE k \in 1..Len(gr.initializer) : gr.initializer[k].name = name
    IN  gr.initializer[k].vals

\* the tensors node nd yields from the values env of the names computed so
\* far; hd is what the detector's own nodes compute
RunNode(gr, nd, env, hd, lax) ==
    LET In(i) == env[nd.input[i]]
        ok == \A i \in 1..Len(nd.input) :
                  \/ nd.input[i] \in Range(InitializerNames(gr))
                  \/ nd.input[i] \in DOMAIN env /\ IsTensor(env[nd.input[i]])
    IN  IF ~ok THEN Failure
        ELSE CASE nd.op = "Body"      -> hd
               [] nd.op = "Identity"  -> In(1)
               [] nd.op = "Transpose" -> Transpose021(In(1))
               [] nd.op = "Slice"     ->
                      Slice(In(1), InitializerVals(gr, nd.input[2]),
                            InitializerVals(gr, nd.input[3]),
                            InitializerVals(gr, nd.input[4]),
                            InitializerVals(gr, nd.input[5]))
               [] nd.op = "Mul"       -> Elementwise("Mul", In(1), In(2))
               [] nd.op = "Max"       -> Elementwise("Max", In(1), In(2))
               [] nd.op = "Round"     -> RoundT(In(1))
               [] nd.op = "Concat"    ->
                      Concat2([i \in 1..Len(nd.input) |-> In(i)], lax)
               [] OTHER               -> Failure

RECURSIVE RunNodes(_, _, _, _, _)
RunNodes(gr, k, env, hd, lax) ==
    IF k > Len(gr.node) THEN env
    ELSE LET nd  == gr.node[k]
             val == RunNode(gr, nd, env, hd, lax)
             new == [n \in Range(nd.output) |-> val]
         IN  RunNodes(gr, k + 1, new @@ env, hd, lax)

\* sess.run([sess.get_outputs()[0].name], {inp_name: inp})[0]; the image fed
\* in is opaque (the detector's own nodes are), so an empty tensor stands for it
SessRun(gr, hd, lax) ==
    LET feed == [n \in Range(gr.input) |-> Tensor(0, 0, <<>>)]
        env  == RunNodes(gr, 1, feed, hd, lax)
        name == gr.output[1].name
    IN  IF Len(gr.output) > 0 /\ name \in DOMAIN env THEN env[name] ELSE Failure

\* the graph main() leaves in the --out file when no step fails
Augment(gr) ==
    LET old == gr.output[1].name
        new == old \o "_raw"
        g1  == DeclareRaw(RenameProducers(PopOutput(gr), old, new), new)
        b   == BuildSubgraph(g1, new)
    IN  ExtendNodes(DeclareOut(b.g), b.nodes)

-----------------------------------------------------------------------------
(* The variables of a program that is not run, or not yet *)

NoTensor == Tensor(0, 0, <<>>)

\* the script's variables before line 10
DecStart ==
    /\ dpc = "letterbox"
    /\ err = "none"
    /\ r = <<0, 1>>
    /\ nw = 0 /\ nh = 0 /\ padx = 0 /\ pady = 0
    /\ y = NoTensor
    /\ cols = <<>>
    /\ cls_id = <<>>
    /\ conf = <<>>
    /\ idx_top = <<>>
    /\ boxes = <<>>
    /\ scores = <<>>
    /\ cids = <<>>
    /\ dets = <<>>

\* the script is not run
DecIdle ==
    /\ DecStart
    /\ model = NoGraph
    /\ head = NoTensor
    /\ lenient = FALSE
    /\ w0 = 1 /\ h0 = 1 /\ imgsz = 1
    /\ K = 1
    /\ conf_thres = 0
    /\ iou_thres = 0

\* the tool is not run
AugIdle ==
    /\ pc = "idle"
    /\ run = 0
    /\ inp = NoGraph
    /\ g = NoGraph
    /\ raw_out = ""
    /\ old_out_vi = ValueInfo("", <<>>)
    /\ raw_new = ""
    /\ built = <<>>
    /\ checked = FALSE
    /\ writes = 0
    /\ files = <<>>

\* the suppression is not run on its own
NmsIdle ==
    /\ nst = "idle"
    /\ nrects = <<>> /\ nscores = <<>>
    /\ nconf = 0 /\ niou = 0
    /\ kept1 = <<>> /\ kept2 = <<>>

-----------------------------------------------------------------------------
(* One run of main(), step by step.  An exception ends the run ("failed"). *)

InitAug ==
    /\ pc = "load"
    /\ run = 1
    /\ inp \in InputGraphs
    /\ g = NoGraph
    /\ raw_out = ""
    /\ old_out_vi = ValueInfo("", <<>>)
    /\ raw_new = ""
    /\ built = <<>>
    /\ checked = FALSE
    /\ writes = 0
    /\ files = <<>>
    /\ DecIdle
    /\ NmsIdle

\* lines 20-21
Load ==
    /\ pc = "load"
    /\ g' = inp
    /\ pc' = "lookup"
    /\ UNCHANGED <<run, inp, raw_out, old_out_vi, raw_new, built, checked,
                   writes, files>>
    /\ UNCHANGED decVars
    /\ UNCHANGED nmsVars

\* line 24: g.output[0] raises IndexError on an empty output list
Lookup ==
    /\ pc = "lookup"
    /\ IF Len(g.output) = 0
       THEN pc' = "failed" /\ UNCHANGED raw_out
       ELSE pc' = "detach" /\ raw_out' = g.output[1].name
    /\ UNCHANGED <<run, inp, g, old_out_vi, raw_new, built, checked, writes,
                   files>>
    /\ UNCHANGED decVars
    /\ UNCHANGED nmsVars

\* line 27
Detach ==
    /\ pc = "detach"
    /\ old_out_vi' = g.output[Len(g.output)]
    /\ g' = PopOutput(g)
    /\ pc' = "rename"
    /\ UNCHANGED <<run, inp, raw_out, raw_new, built, checked, writes, files>>
    /\ UNCHANGED decVars
    /\ UNCHANGED nmsVars

\* lines 30-34
Rename ==
    /\ pc = "rename"
    /\ raw_new' = raw_out \o "_raw"
    /\ g' = RenameProducers(g, raw_out, raw_out \o "_raw")
    /\ pc' = "declare_raw"
    /\ UNCHANGED <<run, inp, raw_out, old_out_vi, built, checked, writes, files>>
    /\ UNCHANGED decVars
    /\ UNCHANGED nmsVars

\* lines 37-43
DeclareRawStep ==
    /\ pc = "declare_raw"
    /\ g' = DeclareRaw(g, raw_new)
    /\ pc' = "build"
    /\ UNCHANGED <<run, inp, raw_out, old_out_vi, raw_new, built, checked,
                   writes, files>>
    /\ UNCHANGED decVars
    /\ UNCHANGED nmsVars

\* lines 46-69
Build ==
    /\ pc = "build"
    /\ g' = BuildSubgraph(g, raw_new).g
    /\ built' = BuildSubgraph(g, raw_new).nodes
    /\ pc' = "declare_out"
    /\ UNCHANGED <<run, inp, raw_out, old_out_vi, raw_new, checked, writes,
                   files>>
    /\ UNCHANGED decVars
    /\ UNCHANGED nmsVars

\* lines 72-77
DeclareOutStep ==
    /\ pc = "declare_out"
    /\ g' = DeclareOut(g)
    /\ pc' = "extend"
    /\ UNCHANGED <<run, inp, raw_out, old_out_vi, raw_new, built, checked,
                   writes, files>>
    /\ UNCHANGED decVars
    /\ UNCHANGED nmsVars

\* line 79
Extend ==
    /\ pc = "extend"
    /\ g' = ExtendNodes(g, built)
    /\ pc' = "check"
    /\ UNCHANGED <<run, inp, raw_out, old_out_vi, raw_new, built, checked,
                   writes, files>>
    /\ UNCHANGED decVars
    /\ UNCHANGED nmsVars

\* line 81: check_model raises on a graph that breaks a structural rule
Check ==
    /\ pc = "check"
    /\ IF check_model(g)
       THEN pc' = "save" /\ checked' = TRUE
       ELSE pc' = "failed" /\ UNCHANGED checked
    /\ UNCHANGED <<run, inp, g, raw_out, old_out_vi, raw_new, built, writes,
                   files>>
    /\ UNCHANGED decVars
    /\ UNCHANGED nmsVars

\* lines 82-83
Save ==
    /\ pc = "save"
    /\ files' = Append(files, g)
    /\ writes' = writes + 1
    /\ pc' = "done"
    /\ UNCHANGED <<run, inp, g, raw_out, old_out_vi, raw_new, built, checked>>
    /\ UNCHANGED decVars
    /\ UNCHANGED nmsVars

\* the tool is started again, with the file it has just written as --in
Rerun ==
    /\ pc = "done"
    /\ run < MaxRuns
    /\ run' = run + 1
    /\ inp' = files[Len(files)]
    /\ pc' = "load"
    /\ g' = NoGraph
    /\ raw_out' = ""
    /\ old_out_vi' = ValueInfo("", <<>>)
    /\ raw_new' = ""
    /\ built' = <<>>
    /\ checked' = FALSE
    /\ writes' = 0
    /\ UNCHANGED files
    /\ UNCHANGED decVars
    /\ UNCHANGED nmsVars

NextAug ==
    \/ Load \/ Lookup \/ Detach \/ Rename \/ DeclareRawStep \/ Build
    \/ DeclareOutStep \/ Extend \/ Check \/ Save \/ Rerun

SpecAug == InitAug /\ [][NextAug]_vars

-----------------------------------------------------------------------------
(* self_valid.py: the inputs of a run *)

\* candidates (x1, y1, x2, y2, f4, f5, f6), in quarters:
\*   box (0,0)-(4,4), f4 0.5, f5 0.5, f6 2.0
\*   box (1,1)-(5,5), f4 1.0, f5 1.5, f6 0.5
\*   box (4,2)-(8,4), f4 0.5, f5 1.0, f6 1.0
\*   box (6,1)-(2,3), f4 0.0, f5 2.5, f6 1.0   (x2 < x1)
RawRows ==
    { <<0, 0, 16, 16, 2, 2, 8>>,
      <<4, 4, 20, 20, 4, 6, 2>>,
      <<16, 8, 32, 16, 2, 4, 4>>,
      <<24, 4, 8, 12, 0, 10, 4>> }

RowLists == UNION {[1..n -> RawRows] : n \in 1..MaxN}

\* a row cut or zero-padded to c channels
Resize(row, c) == [j \in 1..c |-> IF j <= Len(row) THEN row[j] ELSE 0]

\* the candidates rows as a [1,N,c] tensor
ChannelLast(rows, c) ==
    Tensor(Len(rows), c, [n \in 1..Len(rows) |-> Resize(rows[n], c)])

\* the raw detector outputs, [1,7,N] and [1,N,7]
RawTensors ==
    {ChannelLast(rows, 7) : rows \in RowLists}
        \cup {Transpose021(ChannelLast(rows, 7)) : rows \in RowLists}

\* the canonical [1,N,6] tensor of the raw tensor t = [1,7,N]: row n is
\* (x1, y1, x2, y2, max(f4*f6, f4), round(f5)) of candidate n
Canonical(t) ==
    Tensor(t.d2, 6,
           [n \in 1..t.d2 |->
               <<t.v[1][n], t.v[2][n], t.v[3][n], t.v[4][n],
                 FMax(FMul(t.v[5][n], t.v[7][n]), t.v[5][n]),
                 RoundHalfEven(t.v[6][n])>>])

\* the canonical tensors of the raw ones
CanonicalTensors ==
    {Canonical(Transpose021(ChannelLast(rows, 7))) : rows \in RowLists}

\* outputs of heads with another number of channels
OtherWidths == {5, 9}

OtherTensors ==
    {ChannelLast(rows, c) : rows \in RowLists, c \in OtherWidths}

\* image sizes (w0, h0)
Images == {<<8, 4>>, <<6, 12>>}

ImgSizes == {8}

TopKs == 1..MaxTopK

\* 0.25, 0.75, 1.0
ConfThresholds == {1, 3, 4}

\* 0.25, 0.5
IouThresholds == {1, 2}

RawModel == Detector(<<"detections">>, <<"detections">>)

-----------------------------------------------------------------------------
(* self_valid.py: the computations *)

RoundDiv(n, d) ==
    LET q == n \div d
        f == 2 * (n % d)
    IN  IF f < d THEN q
        ELSE IF f > d THEN q + 1
        ELSE IF q % 2 = 0 THEN q ELSE q + 1

\* int(): towards zero
TruncDiv(n, d) == IF n >= 0 THEN n \div d ELSE -((-n) \div d)

MaxOf(a, b) == IF a >= b THEN a ELSE b

Scale_Larger(w, h, size) == <<size, IF w <= h THEN w ELSE h>>

\* line 12: min(imgsz / w0, imgsz / h0), as <<numerator, denominator>>
Scale(w, h, size) == <<size, MaxOf(w, h)>>

\* line 13: int(round(dim * r))
NewDim(dim, sc) == RoundDiv(dim * sc[1], sc[2])

\* line 14
Pad(size, new) == (size - new) \div 2

\* lines 27-29
Normalize(t) == IF t.d1 = 7 THEN Transpose021(t) ELSE t

\* line 32: y[:, i], i counted from 0
Column(t, i) == [n \in 1..t.d1 |-> t.v[n][i + 1]]

\* line 33
ClassIds(f5) == [n \in 1..Len(f5) |-> RoundHalfEven(f5[n]) \div 4]

\* lines 36-38
Fuse(f4, f6) == [n \in 1..Len(f4) |-> FMax(FMul(f4[n], f6[n]), f4[n])]

\* lines 42-43: argpartition puts k indices of largest confidence first, in
\* an order it does not define, and argsort orders them by confidence,
\* descending, with equal ones in an order it does not define
TopKOrders(cf, k) ==
    {s \in [1..k -> 1..Len(cf)] :
        /\ \A i, j \in 1..k : i < j => s[i] # s[j] /\ cf[s[i]] >= cf[s[j]]
        /\ \A n \in 1..Len(cf) :
              n \notin Range(s) => \A i \in 1..k : cf[n] <= cf[s[i]]}

\* line 45: the four corners of candidate n
Box(cs, n) == <<cs[1][n], cs[2][n], cs[3][n], cs[4][n]>>

\* lines 50-53: (x - pad) / r, clipped to [0, dim - 1]; the result counts
\* 1/(4*imgsz) pixels
Unletterbox(a, pad, sc, dim) ==
    Clamp((a - 4 * pad) * sc[2], 0, (dim - 1) * 4 * sc[1])

UnletterboxBox(b, px, py, sc, w, h) ==
    <<Unletterbox(b[1], px, sc, w), Unletterbox(b[2], py, sc, h),
      Unletterbox(b[3], px, sc, w), Unletterbox(b[4], py, sc, h)>>

\* line 58-59: the positions of s whose score is at least the threshold
RECURSIVE KeepIdx(_, _, _)
KeepIdx(sc, thr, n) ==
    IF n > Len(sc) THEN <<>>
    ELSE (IF sc[n] >= thr THEN <<n>> ELSE <<>>) \o KeepIdx(sc, thr, n + 1)

Pick(s, idx) == [k \in 1..Len(idx) |-> s[idx[k]]]

\* line 62: (x, y, w, h), each made an int
Rect(b, den) ==
    <<TruncDiv(b[1], den), TruncDiv(b[2], den),
      TruncDiv(b[3] - b[1], den), TruncDiv(b[4] - b[2], den)>>

-----------------------------------------------------------------------------
(* line 63, cv2.dnn.NMSBoxes(rects, scores, score_threshold, nms_threshold) *)

RectArea(a) == a[3] * a[4]

RectEmpty(a) == a[3] <= 0 \/ a[4] <= 0

MinOf(a, b) == IF a <= b THEN a ELSE b

\* the area of a & b
InterArea(a, b) ==
    IF RectEmpty(a) \/ RectEmpty(b) THEN 0
    ELSE LET w == MinOf(a[1] + a[3], b[1] + b[3]) - MaxOf(a[1], b[1])
             h == MinOf(a[2] + a[4], b[2] + b[4]) - MaxOf(a[2], b[2])
         IN  IF w <= 0 \/ h <= 0 THEN 0 ELSE w * h

\* 1 - jaccardDistance(a, b) <= thr/4: the overlap is 1 when the two areas
\* sum to nothing, and intersection over union otherwise
OverlapAtMost(a, b, thr) ==
    IF RectArea(a) + RectArea(b) <= 0 THEN 4 <= thr
    ELSE 4 * InterArea(a, b)
            <= thr * (RectArea(a) + RectArea(b) - InterArea(a, b))

\* the indices of cand ordered by score, descending, equal scores in the
\* order of cand (a stable sort)
RECURSIVE SortByScore(_, _)
SortByScore(cand, sc) ==
    IF cand = <<>> THEN <<>>
    ELSE LET k == CHOOSE k \in 1..Len(cand) :
                    /\ \A j \in 1..Len(cand) : sc[cand[j]] <= sc[cand[k]]
                    /\ \A j \in 1..(k - 1) : sc[cand[j]] < sc[cand[k]]
         IN  <<cand[k]>>
                \o SortByScore(SubSeq(cand, 1, k - 1)
                                 \o SubSeq(cand, k + 1, Len(cand)), sc)

\* the indices whose score is above the threshold
RECURSIVE AboveIdx(_, _, _)
AboveIdx(sc, thr, n) ==
    IF n > Len(sc) THEN <<>>
    ELSE (IF sc[n] > thr THEN <<n>> ELSE <<>>) \o AboveIdx(sc, thr, n + 1)

\* the greedy pass: a candidate is kept when it overlaps no kept one by
\* more than the threshold
RECURSIVE Greedy(_, _, _, _)
Greedy(order, rs, thr, kept) ==
    IF order = <<>> THEN kept
    ELSE LET i    == Head(order)
             keep == \A k \in 1..Len(kept) : OverlapAtMost(rs[i], rs[kept[k]], thr)
         IN  Greedy(Tail(order), rs, thr, IF keep THEN Append(kept, i) ELSE kept)

NMSBoxes_SkipLast(rs, sc, score_threshold, nms_threshold) ==
    LET order == SortByScore(AboveIdx(sc, score_threshold, 1), sc)
    IN  Greedy(SubSeq(order, 1, Len(order) - 1), rs, nms_threshold, <<>>)

NMSBoxes(rs, sc, score_threshold, nms_threshold) ==
    Greedy(SortByScore(AboveIdx(sc, score_threshold, 1), sc), rs,
           nms_threshold, <<>>)

\* lines 66-70: what is drawn for the kept rectangle j
Detection(rc, sc, cid) ==
    [box |-> <<rc[1], rc[2], rc[1] + rc[3], rc[2] + rc[4]>>,
     score |-> sc, class_id |-> cid]

\* lines 45-77 as one function of the script's variables at line 44: the
\* detections drawn
Detections(cs, cf, cl, idx, sc, px, py, w, h, cthr, ithr) ==
    LET bx    == [k \in 1..Len(idx) |->
                     UnletterboxBox(Box(cs, idx[k]), px, py, sc, w, h)]
        keep  == KeepIdx(Pick(cf, idx), cthr, 1)
        b2    == Pick(bx, keep)
        s2    == Pick(Pick(cf, idx), keep)
        c2    == Pick(Pick(cl, idx), keep)
        rects == [k \in 1..Len(b2) |-> Rect(b2[k], 4 * sc[1])]
        idxs  == IF Len(b2) > 0 THEN NMSBoxes(rects, s2, cthr, ithr) ELSE <<>>
    IN  [k \in 1..Len(idxs) |->
            Detection(rects[idxs[k]], s2[idxs[k]], c2[idxs[k]])]

-----------------------------------------------------------------------------
(* self_valid.py, step by step.  An exception ends the run ("failed"). *)

\* The model file holds the detector as exported, or what the augment tool
\* made of it.  What the model's own nodes compute is a raw tensor or, for
\* the model as exported, a canonical tensor (a model that already ends in
\* the post-processing) or a tensor with another number of channels.
InitDec ==
    /\ AugIdle
    /\ NmsIdle
    /\ DecStart
    /\ \E im \in Images : w0 = im[1] /\ h0 = im[2]
    /\ imgsz \in ImgSizes
    /\ K \in TopKs
    /\ conf_thres \in ConfThresholds
    /\ iou_thres \in IouThresholds
    /\ \/ /\ model = RawModel
          /\ head \in RawTensors \cup CanonicalTensors \cup OtherTensors
          /\ lenient = FALSE
       \/ /\ model = Augment(RawModel)
          /\ head \in RawTensors
          /\ lenient \in BOOLEAN

Fail(e) ==
    /\ dpc' = "failed"
    /\ err' = e

\* lines 10-14
Letterbox ==
    /\ dpc = "letterbox"
    /\ LET sc == Scale(w0, h0, imgsz)
       IN  /\ r' = sc
           /\ nw' = NewDim(w0, sc)
           /\ nh' = NewDim(h0, sc)
           /\ padx' = Pad(imgsz, NewDim(w0, sc))
           /\ pady' = Pad(imgsz, NewDim(h0, sc))
    /\ dpc' = "run"
    /\ UNCHANGED <<err, decIn, y, cols, cls_id, conf, idx_top, boxes, scores,
                   cids, dets>>
    /\ UNCHANGED augVars
    /\ UNCHANGED nmsVars

\* lines 21-24: the engine's error, if any, ends the script
RunSession ==
    /\ dpc = "run"
    /\ LET out == SessRun(model, head, lenient)
       IN  IF IsTensor(out)
           THEN y' = out /\ dpc' = "normalize" /\ UNCHANGED err
           ELSE Fail("EngineError") /\ UNCHANGED y
    /\ UNCHANGED <<decIn, r, nw, nh, padx, pady, cols, cls_id, conf, idx_top,
                   boxes, scores, cids, dets>>
    /\ UNCHANGED augVars
    /\ UNCHANGED nmsVars

\* lines 27-29
NormalizeStep ==
    /\ dpc = "normalize"
    /\ y' = Normalize(y)
    /\ dpc' = "split"
    /\ UNCHANGED <<err, decIn, r, nw, nh, padx, pady, cols, cls_id, conf,
                   idx_top, boxes, scores, cids, dets>>
    /\ UNCHANGED augVars
    /\ UNCHANGED nmsVars

\* lines 32-33: y[:, i] raises IndexError when y has no column i
Split ==
    /\ dpc = "split"
    /\ IF y.d2 < 7
       THEN Fail("IndexError") /\ UNCHANGED <<cols, cls_id>>
       ELSE /\ cols' = [i \in 1..7 |-> Column(y, i - 1)]
            /\ cls_id' = ClassIds(Column(y, 5))
            /\ dpc' = "fuse"
            /\ UNCHANGED err
    /\ UNCHANGED <<decIn, r, nw, nh, padx, pady, y, conf, idx_top, boxes,
                   scores, cids, dets>>
    /\ UNCHANGED augVars
    /\ UNCHANGED nmsVars

\* lines 36-38
FuseStep ==
    /\ dpc = "fuse"
    /\ conf' = Fuse(cols[5], cols[7])
    /\ dpc' = "topk"
    /\ UNCHANGED <<err, decIn, r, nw, nh, padx, pady, y, cols, cls_id, idx_top,
                   boxes, scores, cids, dets>>
    /\ UNCHANGED augVars
    /\ UNCHANGED nmsVars

\* lines 41-43: argpartition raises ValueError when kth = K-1 is not an
\* index of conf
TopK ==
    /\ dpc = "topk"
    /\ IF K - 1 >= Len(conf)
       THEN Fail("ValueError") /\ UNCHANGED idx_top
       ELSE /\ idx_top' \in TopKOrders(conf, K)
            /\ dpc' = "gather"
            /\ UNCHANGED err
    /\ UNCHANGED <<decIn, r, nw, nh, padx, pady, y, cols, cls_id, conf, boxes,
                   scores, cids, dets>>
    /\ UNCHANGED augVars
    /\ UNCHANGED nmsVars

\* lines 45-47
Gather ==
    /\ dpc = "gather"
    /\ boxes' = [k \in 1..Len(idx_top) |-> Box(cols, idx_top[k])]
    /\ scores' = Pick(conf, idx_top)
    /\ cids' = Pick(cls_id, idx_top)
    /\ dpc' = "unletterbox"
    /\ UNCHANGED <<err, decIn, r, nw, nh, padx, pady, y, cols, cls_id, conf,
                   idx_top, dets>>
    /\ UNCHANGED augVars
    /\ UNCHANGED nmsVars

\* lines 50-53
UnletterboxStep ==
    /\ dpc = "unletterbox"
    /\ boxes' = [k \in 1..Len(boxes) |->
                    UnletterboxBox(boxes[k], padx, pady, r, w0, h0)]
    /\ dpc' = "filter"
    /\ UNCHANGED <<err, decIn, r, nw, nh, padx, pady, y, cols, cls_id, conf,
                   idx_top, scores, cids, dets>>
    /\ UNCHANGED augVars
    /\ UNCHANGED nmsVars

\* lines 56-59
Filter ==
    /\ dpc = "filter"
    /\ LET keep_mask == KeepIdx(scores, conf_thres, 1)
       IN  /\ boxes' = Pick(boxes, keep_mask)
           /\ scores' = Pick(scores, keep_mask)
           /\ cids' = Pick(cids, keep_mask)
    /\ dpc' = "nms"
    /\ UNCHANGED <<err, decIn, r, nw, nh, padx, pady, y, cols, cls_id, conf,
                   idx_top, dets>>
    /\ UNCHANGED augVars
    /\ UNCHANGED nmsVars

\* lines 61-77
Suppress ==
    /\ dpc = "nms"
    /\ IF Len(boxes) > 0
       THEN LET rects == [k \in 1..Len(boxes) |-> Rect(boxes[k], 4 * r[1])]
                idxs  == NMSBoxes(rects, scores, conf_thres, iou_thres)
            IN  dets' = [k \in 1..Len(idxs) |->
                            Detection(rects[idxs[k]], scores[idxs[k]],
                                      cids[idxs[k]])]
       ELSE dets' = <<>>
    /\ dpc' = "done"
    /\ UNCHANGED <<err, decIn, r, nw, nh, padx, pady, y, cols, cls_id, conf,
                   idx_top, boxes, scores, cids>>
    /\ UNCHANGED augVars
    /\ UNCHANGED nmsVars

NextDec ==
    \/ Letterbox \/ RunSession \/ NormalizeStep \/ Split \/ FuseStep
    \/ TopK \/ Gather \/ UnletterboxStep \/ Filter \/ Suppress

SpecDec == InitDec /\ [][NextDec]_vars

-----------------------------------------------------------------------------
(* The suppression of line 63 as a function: run on a list of scored       *)
(* rectangles, then on the rectangles it kept.                             *)

\* (x, y, w, h): two that overlap by 81/119, one that overlaps both a
\* little, one of no area, one of negative width
NmsRects ==
    { <<0, 0, 10, 10>>, <<1, 1, 10, 10>>, <<5, 5, 10, 10>>, <<3, 3, 0, 4>>,
      <<8, 2, -4, 2>> }

\* 0.5, 1.0
NmsScores == {2, 4}

\* 0.25
NmsConfs == {1}

\* 0, 0.25, 0.75, 1.0
NmsIous == {0, 1, 3, 4}

InitNms ==
    /\ AugIdle
    /\ DecIdle
    /\ nst = "input"
    /\ \E n \in 1..MaxBoxes :
          /\ nrects \in [1..n -> NmsRects]
          /\ nscores \in [1..n -> NmsScores]
    /\ nconf \in NmsConfs
    /\ niou \in NmsIous
    /\ kept1 = <<>>
    /\ kept2 = <<>>

NmsOnce ==
    /\ nst = "input"
    /\ kept1' = NMSBoxes(nrects, nscores, nconf, niou)
    /\ nst' = "once"
    /\ UNCHANGED <<nrects, nscores, nconf, niou, kept2>>
    /\ UNCHANGED <<augVars, decVars>>

NmsTwice ==
    /\ nst = "once"
    /\ kept2' = NMSBoxes(Pick(nrects, kept1), Pick(nscores, kept1), nconf, niou)
    /\ nst' = "twice"
    /\ UNCHANGED <<nrects, nscores, nconf, niou, kept1>>
    /\ UNCHANGED <<augVars, decVars>>

NextNms == NmsOnce \/ NmsTwice

SpecNms == InitNms /\ [][NextNms]_vars

-----------------------------------------------------------------------------
(* The letterbox of lines 10-17 as a function of the image size and the    *)
(* canvas side.                                                            *)

\* (w0, h0, imgsz): every small size, and a 1920x1080 frame on the script's
\* canvas of 1280
LetterboxInputs ==
    {<<w, h, t>> : w \in 1..MaxDim, h \in 1..MaxDim, t \in 1..MaxDim}
        \cup {<<1920, 1080, 1280>>}

InitLb ==
    /\ AugIdle
    /\ NmsIdle
    /\ DecStart
    /\ \E in \in LetterboxInputs : w0 = in[1] /\ h0 = in[2] /\ imgsz = in[3]
    /\ model = NoGraph
    /\ head = NoTensor
    /\ lenient = FALSE
    /\ K = 1
    /\ conf_thres = 0
    /\ iou_thres = 0

\* the length of a[lo:lo+n] of an axis of length size (lo, n >= 0)
SliceLen(lo, n, size) ==
    (IF lo + n <= size THEN lo + n ELSE size) - (IF lo <= size THEN lo ELSE size)

\* lines 15-17: cv2.resize refuses an empty size; the assignment to the
\* slice of the canvas needs the slice to have the shape of the resized image
Canvas ==
    /\ dpc = "run"
    /\ IF nw <= 0 \/ nh <= 0
          THEN Fail("cv2.error")
          ELSE IF SliceLen(pady, nh, imgsz) # nh \/ SliceLen(padx, nw, imgsz) # nw
                 THEN Fail("ValueError")
                 ELSE dpc' = "canvas" /\ err' = err
    /\ UNCHANGED <<decIn, r, nw, nh, padx, pady, y, cols, cls_id, conf,
                   idx_top, boxes, scores, cids, dets>>
    /\ UNCHANGED augVars
    /\ UNCHANGED nmsVars

NextLb == Letterbox \/ Canvas

SpecLb == InitLb /\ [][NextLb]_vars

-----------------------------------------------------------------------------
(* Properties of the graph rewrite (SpecAug) *)

\* main() has made every change to g (lines 24-79)
Mutated == pc \in {"check", "save", "done"}

NodeOutputs(gr) == Flatten([k \in 1..Len(gr.node) |-> gr.node[k].output])

OutputNames(gr) == [i \in 1..Len(gr.output) |-> gr.output[i].name]

\* the structural rules of the graph format, stated on their own
WellFormed(gr) ==
    /\ Distinct(InitializerNames(gr))
    /\ Distinct(gr.input \o InitializerNames(gr) \o NodeOutputs(gr))
    /\ \A k \in 1..Len(gr.node) : \A i \in 1..Len(gr.node[k].input) :
          \/ gr.node[k].input[i] \in Range(gr.input)
          \/ gr.node[k].input[i] \in Range(InitializerNames(gr))
          \/ \E j \in 1..(k - 1) : gr.node[k].input[i] \in Range(gr.node[j].output)

C4_WriteOnlyAfterValidation ==
    /\ writes <= 1
    /\ Len(files) = (run - 1) + writes
    /\ writes = 1 =>
          /\ pc = "done"
          /\ checked
          /\ files[Len(files)] = g
          /\ Len(g.node) = Len(inp.node) + 12
          /\ WellFormed(g)
    /\ pc = "failed" => writes = 0
    /\ pc \notin {"save", "done"} => writes = 0

\* a run that validation stopped, after every mutation, with nothing written
C4_Witness ==
    /\ pc = "failed"
    /\ Len(g.node) = Len(inp.node) + 12
    /\ ~WellFormed(g)
    /\ writes = 0
    /\ files = <<>>

\* C5: the second of two consecutive applications never reaches the write:
\* it has written nothing, only the first run's file exists, and no file
\* ever written names an initializer or a node output twice.
C5_SecondRunFails ==
    /\ run >= 2 =>
          /\ pc \notin {"save", "done"}
          /\ writes = 0
          /\ Len(files) = 1
          /\ pc = "failed" => Len(g.node) = Len(inp.node) + 12 /\ ~checked
    /\ \A i \in 1..Len(files) :
          /\ Distinct(InitializerNames(files[i]))
          /\ Distinct(NodeOutputs(files[i]))

\* the second run, stopped by validation on a graph that names n7 twice
C5_Witness ==
    /\ run = 2
    /\ pc = "failed"
    /\ inp = files[1]
    /\ ~Distinct(NodeOutputs(g))
    /\ ~Distinct(InitializerNames(g))
    /\ Len(files) = 1

\* C6: on a graph whose declared outputs are not exactly one, the run fails
\* and writes nothing, and it never detaches one declared output while it
\* renames the producers of another.
C6_NotOneOutputIsFatal ==
    Len(inp.output) # 1 =>
        /\ writes = 0
        /\ pc \notin {"save", "done"}
        /\ pc \in {"rename", "declare_raw", "build", "declare_out", "extend",
                   "check"} => old_out_vi.name = raw_out

-----------------------------------------------------------------------------
(* Properties of the decode (SpecDec) *)

\* the session has run (line 24), or the engine has refused to
Ran == dpc = "normalize" \/ err = "EngineError"

\* the value of every name of the model's graph after the session's run
Values ==
    RunNodes(model, 1, [n \in Range(model.input) |-> NoTensor], head, lenient)

\* field i (1..7) of every candidate of the raw tensor t = [1,7,N], as [1,N,1]
FieldColumn(t, i) == Tensor(t.d2, 1, [n \in 1..t.d2 |-> <<t.v[i][n]>>])

\* C1: run on a raw tensor of shape [1,7,N], the appended subgraph yields
\* the canonical tensor [1,N,6], and its seven slices are the seven fields,
\* each of shape [1,N,1].
C1_SubgraphComputesCanonical ==
    (Ran /\ model = Augment(RawModel) /\ head.d1 = 7) =>
        /\ dpc = "normalize"
        /\ Shape(y) = <<1, head.d2, 6>>
        /\ y = Canonical(head)
        /\ \A i \in 1..7 : Values[SliceCols[i][2]] = FieldColumn(head, i)

\* what the script draws for the raw tensor t under the run's settings, for
\* each order the top-K selection may return
RawResults(t) ==
    LET yn == Normalize(t)
        cs == [i \in 1..7 |-> Column(yn, i - 1)]
        cf == Fuse(cs[5], cs[7])
        cl == ClassIds(cs[6])
        sc == Scale(w0, h0, imgsz)
        px == Pad(imgsz, NewDim(w0, sc))
        py == Pad(imgsz, NewDim(h0, sc))
    IN  {Detections(cs, cf, cl, idx, sc, px, py, w0, h0, conf_thres, iou_thres) :
            idx \in TopKOrders(cf, K)}

\* C3: given the canonical tensor of a raw tensor, the decode completes and
\* returns the set of detections it returns for the raw tensor itself.
C3_RawCanonicalParity ==
    \A t \in RawTensors :
        (/\ dpc \in {"done", "failed"}
         /\ model = RawModel
         /\ t.d1 = 7 /\ K <= t.d2
         /\ head = Canonical(t)) =>
            /\ dpc = "done"
            /\ \E d \in RawResults(t) : Range(d) = Range(dets)

\* C7: for every N >= 1 and every top-K setting the selection completes, and
\* it yields the min(K, N) candidates of highest fused score, by score
\* descending.
C7_TopKForEveryN ==
    (model = RawModel /\ head \in RawTensors) =>
        /\ err # "ValueError"
        /\ dpc = "gather" =>
              /\ Len(idx_top) = MinOf(K, Len(conf))
              /\ Distinct(idx_top)
              /\ \A i, j \in 1..Len(idx_top) :
                    i < j => conf[idx_top[i]] >= conf[idx_top[j]]
              /\ \A n \in 1..Len(conf) : \A i \in 1..Len(idx_top) :
                    n \notin Range(idx_top) => conf[n] <= conf[idx_top[i]]

\* C8: a tensor neither of whose axes has size 7 or 6 is never decoded: the
\* run gets no further than the column split, where it fails, and draws
\* nothing.
C8_OtherShapesAreFatal ==
    (model = RawModel /\ head.d1 \notin {6, 7} /\ head.d2 \notin {6, 7}) =>
        /\ dpc \in {"letterbox", "run", "normalize", "split", "failed"}
        /\ dets = <<>>

\* the number of detections drawn from the top-K selection at hand under the
\* confidence threshold c
CountAt(c) ==
    Len(Detections(cols, conf, cls_id, idx_top, r, padx, pady, w0, h0, c,
                   iou_thres))

\* C9: raising conf_thres never raises the number of detections; and when
\* no candidate reaches the threshold the run ends without an error, with
\* no detection.
C9_ConfidenceMonotone ==
    (model = RawModel /\ head \in RawTensors) =>
        /\ dpc = "gather" =>
              \A a, b \in ConfThresholds : a <= b => CountAt(b) <= CountAt(a)
        /\ LET yn == Normalize(head)
           IN  (\A n \in 1..yn.d1 :
                    FMax(FMul(yn.v[n][5], yn.v[n][7]), yn.v[n][5]) < conf_thres)
                  => err = "none" /\ dets = <<>>

-----------------------------------------------------------------------------
(* Properties of the suppression (SpecNms) *)

\* C10: run again, with the same thresholds, on the rectangles it kept, the
\* suppression keeps every one of them.
C10_NmsIdempotent ==
    nst = "twice" =>
        /\ Len(kept2) = Len(kept1)
        /\ Range(kept2) = 1..Len(kept1)
        /\ {<<Pick(nrects, kept1)[k], Pick(nscores, kept1)[k]>> : k \in Range(kept2)}
              = {<<nrects[i], nscores[i]>> : i \in Range(kept1)}

\* a first run that suppressed a rectangle and kept two, run again
C10_Witness ==
    /\ nst = "twice"
    /\ Len(kept1) >= 2
    /\ Len(kept1) < Len(nrects)
    /\ Len(kept2) = Len(kept1)

-----------------------------------------------------------------------------
(* Properties of the letterbox (SpecLb) *)

\* C11: for all positive w0, h0 and imgsz, with r = min(imgsz/w0, imgsz/h0),
\* new = round(dim * r) and pad = (imgsz - new) // 2: nw <= imgsz and
\* nh <= imgsz, padx >= 0 and pady >= 0, pad + new <= imgsz on each axis,
\* the padding left on the far side is the near one or one pixel more (so
\* the paste into the canvas never fails on a shape mismatch); and a
\* 1920x1080 image on a canvas of 1280 gives nw = 1280, nh = 720, padx = 0,
\* pady = 280.
C11_LetterboxInsideCanvas ==
    dpc # "letterbox" =>
        /\ r[1] * w0 <= r[2] * imgsz
        /\ r[1] * h0 <= r[2] * imgsz
        /\ r[1] * w0 = r[2] * imgsz \/ r[1] * h0 = r[2] * imgsz
        /\ nw <= imgsz /\ nh <= imgsz
        /\ nw = imgsz \/ nh = imgsz
        /\ padx >= 0 /\ pady >= 0
        /\ padx + nw <= imgsz /\ pady + nh <= imgsz
        /\ imgsz - nw - 2 * padx \in {0, 1}
        /\ imgsz - nh - 2 * pady \in {0, 1}
        /\ err # "ValueError"
        /\ (w0 = 1920 /\ h0 = 1080 /\ imgsz = 1280) =>
               nw = 1280 /\ nh = 720 /\ padx = 0 /\ pady = 280

C11_Witness ==
    /\ dpc = "canvas"
    /\ w0 = 1920 /\ h0 = 1080 /\ imgsz = 1280
    /\ nw = 1280 /\ nh = 720 /\ padx = 0 /\ pady = 280

=============================================================================
